---------------------------- MODULE Spec2Model ----------------------------
(* A model of the idea-management HTTP service (src/server.js) and of the   *)
(* PostgreSQL tables it creates and queries.                                *)
(*                                                                          *)
(* A request is a slot of reqs.  An action is what the server does between  *)
(* two suspension points: the arrival of a request runs the synchronous     *)
(* prefix of its route up to the first "await db.query", and every later    *)
(* action executes one SQL statement together with the synchronous code     *)
(* that follows it.  bcrypt.hash / bcrypt.compare touch no shared state and *)
(* are folded into the statement that precedes them.                        *)
(*                                                                          *)
(* The schema routes of lines 401-479 are written "api.get(...)"; they are  *)
(* modelled as routes of the application, like the rest.                    *)
EXTENDS Integers, Sequences, FiniteSets, TLC

VARIABLES tables, users, ideas, comments, feedback, serial, now, issued, reqs

vars == <<tables, users, ideas, comments, feedback, serial, now, issued, reqs>>

db == <<tables, users, ideas, comments, feedback, serial>>

-----------------------------------------------------------------------------
(* Bounds of the model *)

MaxId == 2
MaxTime == 2
MaxTokens == 2

Req == {"r1", "r2"}

Usernames == {"ann", "bob"}
Emails == {"a@x", "b@x"}
Passwords == {"pw"}
PatchBodies ==
    { [short_description |-> <<>>, description |-> <<>>, status |-> <<"Done">>],
      [short_description |-> <<"s">>, description |-> <<>>, status |-> <<>>] }

(* Program constants.  The clock counts half hours: expiresIn "1h" is 2. *)

ExpiresIn == 2
JWT_SECRET == "please_change_me"

-----------------------------------------------------------------------------
(* Values.  A nullable column or an optional body field is <<>> (NULL,      *)
(* undefined) or <<v>>.                                                     *)

NULL == <<>>
Some(v) == <<v>>
IsNull(o) == o = <<>>
Val(o) == o[1]

TableNames == {"users", "ideas", "comments", "feedback"}

(* bcrypt.hash(password, 10) and bcrypt.compare *)
Hash(pw) == <<"$2b$10$", pw>>
Compare(pw, h) == h = Hash(pw)

(* jwt.sign({id}, JWT_SECRET, {expiresIn: "1h"}) at time t *)
Sign(id, t) == [id |-> id, iat |-> t, exp |-> t + ExpiresIn, key |-> JWT_SECRET]

(* jwt.verify(token, JWT_SECRET) at time t: signature, then expiry *)
(* (VerifyMutExpiry: a token is still accepted at its exp) *)
VerifyMutExpiry(tok, t) == tok.key = JWT_SECRET /\ t <= tok.exp
Verify(tok, t) == tok.key = JWT_SECRET /\ t < tok.exp

Garbage == [id |-> 0, iat |-> 0, exp |-> 0, key |-> "garbage"]
Forged(t) == { [id |-> i, iat |-> t, exp |-> t + ExpiresIn, key |-> "other"] : i \in 1..MaxId }

(* The Authorization headers a client may send at time t *)
Headers(t) ==
    { [scheme |-> "none", tok |-> Garbage], [scheme |-> "Basic", tok |-> Garbage],
      [scheme |-> "Bearer", tok |-> Garbage] }
    \cup { [scheme |-> "Bearer", tok |-> k] : k \in issued \cup Forged(t) }

NoHeader == [scheme |-> "none", tok |-> Garbage]
NoUser == [id |-> 0, username |-> "", email |-> ""]

Idle == [route |-> "none", pc |-> "idle", hdr |-> NoHeader, user |-> NoUser,
         id |-> 0, body |-> <<>>, status |-> 0, out |-> <<>>, fault |-> "none", at |-> "none"]

-----------------------------------------------------------------------------
Init ==
    /\ tables = {}
    /\ users = {}
    /\ ideas = {}
    /\ comments = {}
    /\ feedback = {}
    /\ serial = [t \in TableNames |-> 1]
    /\ now = 0
    /\ issued = {}
    /\ reqs = [r \in Req |-> Idle]


-----------------------------------------------------------------------------
(* Responses and failures *)

Done(q, st, out) == [q EXCEPT !.pc = "done", !.status = st, !.out = out]

At(r, route, pc) == reqs[r].route = route /\ reqs[r].pc = pc

Set(r, q) == reqs' = [reqs EXCEPT ![r] = q]

SchemaRoutes == {"create_table_users", "create_table_ideas",
                 "create_table_comments", "create_table_feedback"}

(* The handlers whose "await db.query" is inside no try block *)
Uncaught == {"ping", "idea_create"}

(* handleError(res, err) *)
handleError(q) == Done(q, 500, "Server error.")

(* A rejected promise of an async handler that has no try block.  Express 5 *)
(* passes it to the error middleware (lines 491-494); Express 4 does not,   *)
(* and the request is never answered.  The repository pins no version.      *)
Unhandled(q) == { Done(q, 500, "Something went wrong!"), [q EXCEPT !.pc = "unanswered"] }

(* What becomes of request q when the statement it awaits is rejected *)
Catch(q, why) ==
    LET f == [q EXCEPT !.fault = why, !.at = q.pc] IN
    IF q.pc = "auth" THEN { Done(f, 401, "Invalid or expired token.") }
    ELSE IF q.route \in Uncaught THEN Unhandled(f)
    ELSE IF q.route \in SchemaRoutes THEN { Done(f, 500, "Error creating table.") }
    ELSE { handleError(f) }

Reject(r, why) == reqs' \in { [reqs EXCEPT ![r] = x] : x \in Catch(reqs[r], why) }

-----------------------------------------------------------------------------
(* SQL statements.  Each is what PostgreSQL does with the statement under   *)
(* the schema of lines 401-479: UNIQUE, NOT NULL and the foreign keys       *)
(* (REFERENCES without ON DELETE, that is NO ACTION).                       *)

Ids(rows) == { x.id : x \in rows }

(* The foreign keys REFERENCES declares: child table -> referenced tables *)
References(t) ==
    CASE t = "ideas" -> {"users"}
      [] t = "comments" -> {"ideas", "users"}
      [] OTHER -> {}

Dependents(t) == { c \in TableNames \ {t} : t \in References(c) }

(* DROP TABLE IF EXISTS t: refused while a foreign key of another table     *)
(* depends on t *)
(* (CanDropMutCascade: the table is dropped whatever depends on it) *)
CanDropMutCascade(t) == TRUE
CanDrop(t) == Dependents(t) \cap tables = {}

(* CREATE TABLE IF NOT EXISTS t: a no-op when t exists, refused when a      *)
(* referenced table is missing *)
CanCreate(t) == t \in tables \/ References(t) \subseteq tables

(* UNIQUE (username), UNIQUE (email) *)
(* (UniqueOkMutNone: a table without the two constraints) *)
UniqueOkMutNone(row) == TRUE
UniqueOk(row) == \A u \in users : u.username # row.username /\ u.email # row.email

(* ideas.user_id REFERENCES users(id) *)
IdeaFkOk(row) == row.user_id \in Ids(users)

(* comments: idea_id REFERENCES ideas(id), user_id REFERENCES users(id),    *)
(* parent_id REFERENCES comments(id); a row may name itself                 *)
(* (CommentFkOkMutNone: INSERT without the foreign keys) *)
CommentFkOkMutNone(row) == TRUE
CommentFkOk(row) ==
    /\ row.idea_id \in Ids(ideas)
    /\ row.user_id \in Ids(users)
    /\ IsNull(row.parent_id) \/ Val(row.parent_id) \in Ids(comments) \cup {row.id}

(* DELETE FROM ideas: refused while a comment names a deleted idea *)
IdeaDeleteOk(gone) == \A c \in comments : c.idea_id \notin Ids(gone)

(* DELETE FROM comments: refused while a remaining comment names a deleted  *)
(* comment as its parent *)
(* (CommentDeleteOkMutNone: DELETE without the foreign key on parent_id) *)
CommentDeleteOkMutNone(gone) == TRUE
CommentDeleteOk(gone) ==
    \A c \in comments \ gone : IsNull(c.parent_id) \/ Val(c.parent_id) \notin Ids(gone)

(* ORDER BY created_at DESC: every order of the rows that is descending *)
Descending(rows) ==
    { s \in [1..Cardinality(rows) -> rows] :
        /\ \A i, j \in DOMAIN s : i # j => s[i] # s[j]
        /\ \A i, j \in DOMAIN s : i < j => s[i].created_at >= s[j].created_at }

-----------------------------------------------------------------------------
(* GET /api/ping *)

Ping(r) ==
    /\ reqs[r].pc = "idle"
    /\ Set(r, [Idle EXCEPT !.route = "ping", !.pc = "query"])
    /\ UNCHANGED <<db, now, issued>>

PingQuery(r) ==
    /\ At(r, "ping", "query")
    /\ Set(r, Done(reqs[r], 200, [pong |-> TRUE, dbTime |-> now]))
    /\ UNCHANGED <<db, now, issued>>

-----------------------------------------------------------------------------
(* Schema routes: DROP TABLE IF EXISTS t, then CREATE TABLE IF NOT EXISTS t *)

TableOf(route) ==
    CASE route = "create_table_users" -> "users"
      [] route = "create_table_ideas" -> "ideas"
      [] route = "create_table_comments" -> "comments"
      [] route = "create_table_feedback" -> "feedback"

(* The rows of every table after the rows of table t become new *)
SetRows(t, new) ==
    /\ users' = IF t = "users" THEN new ELSE users
    /\ ideas' = IF t = "ideas" THEN new ELSE ideas
    /\ comments' = IF t = "comments" THEN new ELSE comments
    /\ feedback' = IF t = "feedback" THEN new ELSE feedback

CreateTable(r, route) ==
    /\ reqs[r].pc = "idle"
    /\ route \in SchemaRoutes
    /\ Set(r, [Idle EXCEPT !.route = route, !.pc = "drop"])
    /\ UNCHANGED <<db, now, issued>>

DropTable(r) ==
    /\ reqs[r].route \in SchemaRoutes
    /\ reqs[r].pc = "drop"
    /\ LET t == TableOf(reqs[r].route) IN
       IF CanDrop(t)
       THEN /\ tables' = tables \ {t}
            /\ SetRows(t, {})
            /\ Set(r, [reqs[r] EXCEPT !.pc = "create"])
            /\ UNCHANGED serial
       ELSE /\ Reject(r, "dependent_objects_still_exist")
            /\ UNCHANGED db
    /\ UNCHANGED <<now, issued>>

CreateTableIfNotExists(r) ==
    /\ reqs[r].route \in SchemaRoutes
    /\ reqs[r].pc = "create"
    /\ LET t == TableOf(reqs[r].route) IN
       IF CanCreate(t)
       THEN /\ tables' = tables \cup {t}
            /\ serial' = IF t \in tables THEN serial ELSE [serial EXCEPT ![t] = 1]
            /\ Set(r, Done(reqs[r], 200, "Table created."))
            /\ UNCHANGED <<users, ideas, comments, feedback>>
       ELSE /\ Reject(r, "undefined_table")
            /\ UNCHANGED db
    /\ UNCHANGED <<now, issued>>

-----------------------------------------------------------------------------
(* POST /api/register *)

RegisterBodies ==
    [username : {NULL} \cup {Some(u) : u \in Usernames},
     email : {Some(e) : e \in Emails},
     password : {Some(p) : p \in Passwords},
     name : {Some("N")}]

Register(r, body) ==
    /\ reqs[r].pc = "idle"
    /\ LET q == [Idle EXCEPT !.route = "register", !.body = body] IN
       IF IsNull(body.username) \/ IsNull(body.email) \/ IsNull(body.password)
          \/ IsNull(body.name)
       THEN Set(r, Done(q, 400, "All fields required."))
       ELSE Set(r, [q EXCEPT !.pc = "select"])
    /\ UNCHANGED <<db, now, issued>>

(* SELECT id FROM users WHERE username = $1 OR email = $2 *)
RegisterSelect(r) ==
    /\ At(r, "register", "select")
    /\ LET q == reqs[r]
           existsRows == { u \in users : u.username = Val(q.body.username)
                                          \/ u.email = Val(q.body.email) }
       IN  IF "users" \notin tables THEN Reject(r, "undefined_table")
           ELSE IF existsRows # {} THEN Set(r, Done(q, 400, "Username or email taken."))
           ELSE Set(r, [q EXCEPT !.pc = "insert"])
    /\ UNCHANGED <<db, now, issued>>

(* INSERT INTO users (username, email, password, name) *)
RegisterInsert(r) ==
    /\ At(r, "register", "insert")
    /\ LET q == reqs[r]
           row == [id |-> serial["users"], username |-> Val(q.body.username),
                   email |-> Val(q.body.email), password |-> Hash(Val(q.body.password)),
                   name |-> Val(q.body.name)]
       IN  IF "users" \notin tables
           THEN Reject(r, "undefined_table") /\ UNCHANGED db
           ELSE /\ serial["users"] <= MaxId
                /\ serial' = [serial EXCEPT !["users"] = @ + 1]
                /\ UNCHANGED <<tables, ideas, comments, feedback>>
                /\ IF UniqueOk(row)
                   THEN users' = users \cup {row} /\ Set(r, Done(q, 201, [success |-> TRUE]))
                   ELSE UNCHANGED users /\ Reject(r, "unique_violation")
    /\ UNCHANGED <<now, issued>>

-----------------------------------------------------------------------------
(* POST /api/login *)

LoginBodies ==
    [email : {NULL} \cup {Some(e) : e \in Emails},
     password : {Some(p) : p \in Passwords \cup {"wrong"}}]

Login(r, body) ==
    /\ reqs[r].pc = "idle"
    /\ LET q == [Idle EXCEPT !.route = "login", !.body = body] IN
       IF IsNull(body.email) \/ IsNull(body.password)
       THEN Set(r, Done(q, 400, "Email & password required."))
       ELSE Set(r, [q EXCEPT !.pc = "select"])
    /\ UNCHANGED <<db, now, issued>>

(* SELECT id, password FROM users WHERE email = $1; compare; sign *)
LoginSelect(r) ==
    /\ At(r, "login", "select")
    /\ LET q == reqs[r]
           rows == { u \in users : u.email = Val(q.body.email) }
       IN  IF "users" \notin tables THEN Reject(r, "undefined_table") /\ UNCHANGED issued
           ELSE IF rows = {} THEN Set(r, Done(q, 400, "Invalid credentials.")) /\ UNCHANGED issued
           ELSE \E user \in rows :
                  IF ~Compare(Val(q.body.password), user.password)
                  THEN Set(r, Done(q, 400, "Invalid credentials.")) /\ UNCHANGED issued
                  ELSE /\ Sign(user.id, now) \in issued \/ Cardinality(issued) < MaxTokens
                       /\ issued' = issued \cup {Sign(user.id, now)}
                       /\ Set(r, Done(q, 200, [token |-> Sign(user.id, now)]))
    /\ UNCHANGED <<db, now>>

-----------------------------------------------------------------------------
(* POST /api/feedback *)

FeedbackBodies == [email : {NULL, Some("a@x")}, feedback : {NULL, Some("F")}]

Feedback(r, body) ==
    /\ reqs[r].pc = "idle"
    /\ LET q == [Idle EXCEPT !.route = "feedback", !.body = body] IN
       IF IsNull(body.feedback)
       THEN Set(r, Done(q, 400, "Email & feedback required."))
       ELSE Set(r, [q EXCEPT !.pc = "insert"])
    /\ UNCHANGED <<db, now, issued>>

(* INSERT INTO feedback (feedback[, email]) *)
FeedbackInsert(r) ==
    /\ At(r, "feedback", "insert")
    /\ LET q == reqs[r]
           row == [id |-> serial["feedback"], email |-> q.body.email,
                   feedback |-> Val(q.body.feedback), created_at |-> now]
       IN  IF "feedback" \notin tables
           THEN Reject(r, "undefined_table") /\ UNCHANGED db
           ELSE /\ serial["feedback"] <= MaxId
                /\ serial' = [serial EXCEPT !["feedback"] = @ + 1]
                /\ feedback' = feedback \cup {row}
                /\ Set(r, Done(q, 201, [success |-> TRUE]))
                /\ UNCHANGED <<tables, users, ideas, comments>>
    /\ UNCHANGED <<now, issued>>

(* A request no route matches (lines 487-489) *)
NotFound(r) ==
    /\ reqs[r].pc = "idle"
    /\ Set(r, Done([Idle EXCEPT !.route = "unmatched"], 404, "Route not found"))
    /\ UNCHANGED <<db, now, issued>>

-----------------------------------------------------------------------------
(* Protected routes: authenticateToken, then the handler *)

Protected == {"me", "ideas_list", "my_ideas", "idea_get", "idea_create", "idea_patch",
              "idea_delete", "comment_create", "comments_list", "comment_delete"}

WithId == {"idea_get", "idea_patch", "idea_delete", "comment_create", "comments_list",
           "comment_delete"}

IdeaBodies ==
    [title : {NULL, Some("Foo")}, description : {NULL}, short_description : {NULL},
     area : {NULL}, status : {NULL, Some("Open")}, created_at : {0}]

CommentBodies ==
    [comment : {NULL, Some("C")}, parentId : {NULL} \cup {Some(i) : i \in 1..MaxId},
     created_at : {0}]

BodiesOf(route) ==
    CASE route = "idea_create" -> IdeaBodies
      [] route = "idea_patch" -> PatchBodies
      [] route = "comment_create" -> CommentBodies
      [] OTHER -> { <<>> }

ParamsOf(route) == IF route \in WithId THEN 1..MaxId ELSE {0}

(* authenticateToken, lines 77-83: the header, then jwt.verify *)
Arrive(r, route, hdr, id, body) ==
    /\ reqs[r].pc = "idle"
    /\ LET q == [Idle EXCEPT !.route = route, !.hdr = hdr, !.id = id, !.body = body] IN
       IF hdr.scheme # "Bearer"
       THEN Set(r, Done(q, 401, "Missing or invalid token."))
       ELSE IF ~Verify(hdr.tok, now)
       THEN Set(r, Done(q, 401, "Invalid or expired token."))
       ELSE Set(r, [q EXCEPT !.pc = "auth"])
    /\ UNCHANGED <<db, now, issued>>

(* The synchronous start of the handler of q.route, with req.user set *)
Enter(q) ==
    CASE q.route = "me" -> Done(q, 200, q.user)
      [] q.route = "idea_create" ->
            IF IsNull(q.body.title) THEN Done(q, 400, "Title required.")
            ELSE [q EXCEPT !.pc = "insert", !.body.created_at = now]
      [] q.route = "comment_create" ->
            IF IsNull(q.body.comment) THEN Done(q, 400, "Comment required.")
            ELSE [q EXCEPT !.pc = "insert", !.body.created_at = now]
      [] q.route = "idea_patch" -> [q EXCEPT !.pc = "update"]
      [] q.route \in {"idea_delete", "comment_delete"} -> [q EXCEPT !.pc = "select"]
      [] OTHER -> [q EXCEPT !.pc = "query"]

(* SELECT id, username, email FROM users WHERE id = $1 *)
Lookup(id) == { u \in users : u.id = id }

(* authenticateToken, lines 84-94 *)
AuthQuery(r) ==
    /\ reqs[r].pc = "auth"
    /\ LET q == reqs[r]
           rows == Lookup(q.hdr.tok.id)
       IN  IF "users" \notin tables THEN Reject(r, "undefined_table")
           ELSE IF rows = {} THEN Set(r, Done(q, 401, "Invalid or expired token."))
           ELSE \E u \in rows :
                  Set(r, Enter([q EXCEPT !.user = [id |-> u.id, username |-> u.username,
                                                  email |-> u.email]]))
    /\ UNCHANGED <<db, now, issued>>

-----------------------------------------------------------------------------
(* Ideas *)

(* ideas i JOIN users u ON i.user_id = u.id *)
Joined(rows) ==
    { [id |-> i.id, title |-> i.title, description |-> i.description,
       short_description |-> i.short_description, area |-> i.area, status |-> i.status,
       created_at |-> i.created_at, user_id |-> u.id, username |-> u.username] :
      <<i, u>> \in { p \in rows \X users : p[1].user_id = p[2].id } }

(* GET /api/ideas *)
IdeasList(r) ==
    /\ At(r, "ideas_list", "query")
    /\ IF "ideas" \notin tables \/ "users" \notin tables THEN Reject(r, "undefined_table")
       ELSE \E s \in Descending(Joined(ideas)) : Set(r, Done(reqs[r], 200, s))
    /\ UNCHANGED <<db, now, issued>>

(* GET /api/my-ideas *)
MyIdeas(r) ==
    /\ At(r, "my_ideas", "query")
    /\ IF "ideas" \notin tables THEN Reject(r, "undefined_table")
       ELSE \E s \in Descending({ i \in ideas : i.user_id = reqs[r].user.id }) :
              Set(r, Done(reqs[r], 200, s))
    /\ UNCHANGED <<db, now, issued>>

(* GET /api/ideas/:id *)
IdeaGet(r) ==
    /\ At(r, "idea_get", "query")
    /\ LET rows == Joined({ i \in ideas : i.id = reqs[r].id }) IN
       IF "ideas" \notin tables \/ "users" \notin tables THEN Reject(r, "undefined_table")
       ELSE IF rows = {} THEN Set(r, Done(reqs[r], 404, "Idea not found."))
       ELSE \E idea \in rows : Set(r, Done(reqs[r], 200, idea))
    /\ UNCHANGED <<db, now, issued>>

(* The value INSERT stores for a parameter: pg sends undefined as NULL, and *)
(* a column DEFAULT applies only to a column the statement does not name    *)
Param(v, default) == v

(* POST /api/ideas: INSERT INTO ideas (title, ..., status, user_id, created_at) *)
IdeaInsert(r) ==
    /\ At(r, "idea_create", "insert")
    /\ LET q == reqs[r]
           row == [id |-> serial["ideas"], title |-> Val(q.body.title),
                   description |-> q.body.description,
                   short_description |-> q.body.short_description,
                   area |-> q.body.area, status |-> Param(q.body.status, Some("New")),
                   user_id |-> q.user.id, created_at |-> q.body.created_at]
       IN  IF "ideas" \notin tables
           THEN Reject(r, "undefined_table") /\ UNCHANGED db
           ELSE /\ serial["ideas"] <= MaxId
                /\ serial' = [serial EXCEPT !["ideas"] = @ + 1]
                /\ UNCHANGED <<tables, users, comments, feedback>>
                /\ IF IdeaFkOk(row)
                   THEN ideas' = ideas \cup {row} /\ Set(r, Done(q, 201, [success |-> TRUE]))
                   ELSE UNCHANGED ideas /\ Reject(r, "foreign_key_violation")
    /\ UNCHANGED <<now, issued>>

(* const { short_description = "", description = "", status = "" } = req.body *)
(* (OrEmptyMutKeep: a field the body omits is left as it is) *)
OrEmptyMutKeep(v, old) == IF IsNull(v) THEN old ELSE v
OrEmpty(v, old) == IF IsNull(v) THEN Some("") ELSE v

(* The row UPDATE ideas SET short_description, description, status writes *)
Patched(i, body) ==
    [i EXCEPT !.short_description = OrEmpty(body.short_description, @),
              !.description = OrEmpty(body.description, @),
              !.status = OrEmpty(body.status, @)]

(* PATCH /api/ideas/:id: UPDATE ideas SET ... WHERE id = $n RETURNING * *)
IdeaUpdate(r) ==
    /\ At(r, "idea_patch", "update")
    /\ LET q == reqs[r]
           hit == { i \in ideas : i.id = q.id }
           rows == { Patched(i, q.body) : i \in hit }
       IN  IF "ideas" \notin tables
           THEN Reject(r, "undefined_table") /\ UNCHANGED ideas
           ELSE /\ ideas' = (ideas \ hit) \cup rows
                /\ IF rows = {} THEN Set(r, Done(q, 200, <<>>))
                   ELSE \E row \in rows : Set(r, Done(q, 200, row))
    /\ UNCHANGED <<tables, users, comments, feedback, serial, now, issued>>

(* DELETE /api/ideas/:id: SELECT user_id FROM ideas WHERE id = $1 *)
IsOwner(row, user) == row.user_id = user.id

IdeaDeleteSelect(r) ==
    /\ At(r, "idea_delete", "select")
    /\ LET q == reqs[r]
           existingRows == { i \in ideas : i.id = q.id }
       IN  IF "ideas" \notin tables THEN Reject(r, "undefined_table")
           ELSE IF \A e \in existingRows : ~IsOwner(e, q.user)
           THEN Set(r, Done(q, 403, "Not your idea."))
           ELSE Set(r, [q EXCEPT !.pc = "delete"])
    /\ UNCHANGED <<db, now, issued>>

(* DELETE FROM ideas WHERE id = $1 *)
IdeaDelete(r) ==
    /\ At(r, "idea_delete", "delete")
    /\ LET q == reqs[r]
           gone == { i \in ideas : i.id = q.id }
       IN  IF "ideas" \notin tables
           THEN Reject(r, "undefined_table") /\ UNCHANGED ideas
           ELSE IF ~IdeaDeleteOk(gone)
           THEN Reject(r, "foreign_key_violation") /\ UNCHANGED ideas
           ELSE ideas' = ideas \ gone /\ Set(r, Done(q, 200, [success |-> TRUE]))
    /\ UNCHANGED <<tables, users, comments, feedback, serial, now, issued>>

-----------------------------------------------------------------------------
(* Comments *)

(* POST /api/ideas/:id/comments: INSERT INTO comments ... RETURNING * *)
CommentInsert(r) ==
    /\ At(r, "comment_create", "insert")
    /\ LET q == reqs[r]
           row == [id |-> serial["comments"], idea_id |-> q.id, user_id |-> q.user.id,
                   username |-> q.user.username, comment |-> Val(q.body.comment),
                   created_at |-> q.body.created_at, parent_id |-> q.body.parentId]
       IN  IF "comments" \notin tables
           THEN Reject(r, "undefined_table") /\ UNCHANGED db
           ELSE /\ serial["comments"] <= MaxId
                /\ serial' = [serial EXCEPT !["comments"] = @ + 1]
                /\ UNCHANGED <<tables, users, ideas, feedback>>
                /\ IF CommentFkOk(row)
                   THEN comments' = comments \cup {row} /\ Set(r, Done(q, 201, row))
                   ELSE UNCHANGED comments /\ Reject(r, "foreign_key_violation")
    /\ UNCHANGED <<now, issued>>

(* GET /api/ideas/:id/comments *)
CommentsList(r) ==
    /\ At(r, "comments_list", "query")
    /\ IF "comments" \notin tables THEN Reject(r, "undefined_table")
       ELSE \E s \in Descending({ c \in comments : c.idea_id = reqs[r].id }) :
              Set(r, Done(reqs[r], 200, s))
    /\ UNCHANGED <<db, now, issued>>

(* DELETE /api/comments/:id, lines 340-362: SELECT * FROM comments WHERE id *)
(* and the choice of the statements that follow                             *)
CommentDeleteSelect(r) ==
    /\ At(r, "comment_delete", "select")
    /\ LET q == reqs[r]
           rows == { c \in comments : c.id = q.id }
       IN  IF "comments" \notin tables THEN Reject(r, "undefined_table")
           ELSE IF rows = {} THEN Set(r, Done(q, 404, "Comment not found."))
           ELSE \E comment \in rows :
                  IF comment.user_id # q.user.id
                  THEN Set(r, Done(q, 403, "Not your comment."))
                  ELSE IF ~IsNull(comment.parent_id)
                  THEN Set(r, [q EXCEPT !.pc = "delete_reply"])
                  ELSE Set(r, [q EXCEPT !.pc = "delete_replies"])
    /\ UNCHANGED <<db, now, issued>>

(* DELETE FROM comments WHERE <the rows gone>, as request r's statement;    *)
(* next is the request after the statement succeeds                         *)
DeleteComments(r, gone, next) ==
    /\ IF "comments" \notin tables
       THEN Reject(r, "undefined_table") /\ UNCHANGED comments
       ELSE IF ~CommentDeleteOk(gone)
       THEN Reject(r, "foreign_key_violation") /\ UNCHANGED comments
       ELSE comments' = comments \ gone /\ Set(r, next)
    /\ UNCHANGED <<tables, users, ideas, feedback, serial, now, issued>>

(* line 352: DELETE FROM comments WHERE id = $1, of a reply *)
CommentDeleteReply(r) ==
    /\ At(r, "comment_delete", "delete_reply")
    /\ DeleteComments(r, { c \in comments : c.id = reqs[r].id },
                      Done(reqs[r], 200, [success |-> TRUE]))

(* line 356: DELETE FROM comments WHERE parent_id = $1 *)
CommentDeleteReplies(r) ==
    /\ At(r, "comment_delete", "delete_replies")
    /\ DeleteComments(r, { c \in comments : c.parent_id = Some(reqs[r].id) },
                      [reqs[r] EXCEPT !.pc = "delete_self"])

(* line 359: DELETE FROM comments WHERE id = $1, of the top-level comment *)
CommentDeleteSelf(r) ==
    /\ At(r, "comment_delete", "delete_self")
    /\ DeleteComments(r, { c \in comments : c.id = reqs[r].id },
                      Done(reqs[r], 200, [success |-> TRUE]))

-----------------------------------------------------------------------------
(* The environment *)

InFlight(q) == q.pc \notin {"idle", "done", "unanswered", "crashed"}

(* The clock advances *)
Tick ==
    /\ now < MaxTime
    /\ now' = now + 1
    /\ UNCHANGED <<db, issued, reqs>>

(* The statement request r awaits is rejected by the pool (connection lost) *)
QueryFails(r) ==
    /\ InFlight(reqs[r])
    /\ Reject(r, "connection")
    /\ UNCHANGED <<db, now, issued>>

(* The server process dies: no request in flight is answered *)
Crash ==
    /\ \E r \in Req : InFlight(reqs[r])
    /\ reqs' = [r \in Req |-> IF InFlight(reqs[r])
                              THEN [reqs[r] EXCEPT !.pc = "crashed", !.at = reqs[r].pc]
                              ELSE reqs[r]]
    /\ UNCHANGED <<db, now, issued>>

(* The client has its answer, or gives up, and the slot is free again *)
Retire(r) ==
    /\ reqs[r].pc \in {"done", "unanswered", "crashed"}
    /\ Set(r, Idle)
    /\ UNCHANGED <<db, now, issued>>

-----------------------------------------------------------------------------
Steps(r) ==
    \/ PingQuery(r)
    \/ DropTable(r)
    \/ CreateTableIfNotExists(r)
    \/ RegisterSelect(r)
    \/ RegisterInsert(r)
    \/ LoginSelect(r)
    \/ FeedbackInsert(r)
    \/ AuthQuery(r)
    \/ IdeasList(r)
    \/ MyIdeas(r)
    \/ IdeaGet(r)
    \/ IdeaInsert(r)
    \/ IdeaUpdate(r)
    \/ IdeaDeleteSelect(r)
    \/ IdeaDelete(r)
    \/ CommentInsert(r)
    \/ CommentsList(r)
    \/ CommentDeleteSelect(r)
    \/ CommentDeleteReply(r)
    \/ CommentDeleteReplies(r)
    \/ CommentDeleteSelf(r)

Next ==
    \/ \E r \in Req : Ping(r)
    \/ \E r \in Req, route \in SchemaRoutes : CreateTable(r, route)
    \/ \E r \in Req, body \in RegisterBodies : Register(r, body)
    \/ \E r \in Req, body \in LoginBodies : Login(r, body)
    \/ \E r \in Req, body \in FeedbackBodies : Feedback(r, body)
    \/ \E r \in Req : NotFound(r)
    \/ \E r \in Req, route \in Protected, hdr \in Headers(now) :
         \E id \in ParamsOf(route), body \in BodiesOf(route) : Arrive(r, route, hdr, id, body)
    \/ \E r \in Req : Steps(r)
    \/ \E r \in Req : QueryFails(r)
    \/ \E r \in Req : Retire(r)
    \/ Crash
    \/ Tick

Spec == Init /\ [][Next]_vars

-----------------------------------------------------------------------------
(* Registration alone: the users table is created, dropped and recreated,   *)
(* and clients register concurrently.                                       *)

NextRegister ==
    \/ \E r \in Req : CreateTable(r, "create_table_users")
    \/ \E r \in Req : DropTable(r)
    \/ \E r \in Req : CreateTableIfNotExists(r)
    \/ \E r \in Req, body \in RegisterBodies : Register(r, body)
    \/ \E r \in Req : RegisterSelect(r)
    \/ \E r \in Req : RegisterInsert(r)
    \/ \E r \in Req : Retire(r)

SpecRegister == Init /\ [][NextRegister]_vars

-----------------------------------------------------------------------------
(* Registration: claims *)

Finishes(r) == reqs[r].pc \notin {"idle", "done"} /\ reqs'[r].pc = "done"

Taken(body) ==
    \E u \in users : u.username = Val(body.username) \/ u.email = Val(body.email)

(* C1: a register request that completes while a stored user has its        *)
(* username or its email is answered 400 and adds no row.                   *)
C1_DuplicateIsBadRequest ==
    [][\A r \in Req :
         (reqs[r].route = "register" /\ Finishes(r) /\ Taken(reqs[r].body))
            => (reqs'[r].status = 400 /\ users' = users)]_vars

(* C2: no two distinct user rows share a username, and no two share an      *)
(* email.                                                                   *)
C2_UniqueUsers ==
    \A u, v \in users : u # v => (u.username # v.username /\ u.email # v.email)

(* Two users are stored and a concurrent duplicate INSERT was refused *)
C2_Witness ==
    /\ Cardinality(users) >= 2
    /\ \E r \in Req : reqs[r].route = "register" /\ reqs[r].fault = "unique_violation"

-----------------------------------------------------------------------------
(* Authentication: a user is registered; clients log in and call the        *)
(* protected routes with every kind of Authorization header, while the      *)
(* clock advances, statements fail and the users table is recreated.  The   *)
(* statements that write ideas and comments are left to SpecIdeas and       *)
(* SpecComments: here a request that entered such a handler ends with its   *)
(* statement rejected.  Neither authenticateToken nor the login and         *)
(* register handlers read those tables.                                     *)

Ann == [id |-> 1, username |-> "ann", email |-> "a@x", password |-> Hash("pw"), name |-> "N"]
Bob == [id |-> 2, username |-> "bob", email |-> "b@x", password |-> Hash("pw"), name |-> "N"]

BodyOf(u) == [username |-> Some(u.username), email |-> Some(u.email),
              password |-> Some("pw"), name |-> Some(u.name)]

(* After create_table_users (and possibly the other schema routes) and      *)
(* Ann's registration                                                       *)
InitAuth ==
    /\ tables \in { {"users"}, TableNames }
    /\ users = {Ann}
    /\ ideas = {}
    /\ comments = {}
    /\ feedback = {}
    /\ serial = [t \in TableNames |-> IF t = "users" THEN 2 ELSE 1]
    /\ now = 0
    /\ issued = {}
    /\ reqs = [r \in Req |-> Idle]

PlainBody(route) ==
    CASE route = "idea_create" ->
            [title |-> Some("Foo"), description |-> NULL, short_description |-> NULL,
             area |-> NULL, status |-> NULL, created_at |-> 0]
      [] route = "idea_patch" ->
            [short_description |-> NULL, description |-> NULL, status |-> Some("Done")]
      [] route = "comment_create" ->
            [comment |-> Some("C"), parentId |-> NULL, created_at |-> 0]
      [] OTHER -> <<>>

NextAuth ==
    \/ CreateTable("r2", "create_table_users")
    \/ DropTable("r2")
    \/ CreateTableIfNotExists("r2")
    \/ Register("r2", BodyOf(Bob))
    \/ RegisterSelect("r2")
    \/ RegisterInsert("r2")
    \/ \E body \in LoginBodies : Login("r1", body)
    \/ LoginSelect("r1")
    \/ \E route \in Protected, hdr \in Headers(now) :
         Arrive("r1", route, hdr, IF route \in WithId THEN 1 ELSE 0, PlainBody(route))
    \/ AuthQuery("r1")
    \/ IdeasList("r1")
    \/ MyIdeas("r1")
    \/ IdeaGet("r1")
    \/ CommentsList("r1")
    \/ QueryFails("r1")
    \/ \E r \in Req : Retire(r)
    \/ Tick

SpecAuth == InitAuth /\ [][NextAuth]_vars

-----------------------------------------------------------------------------
(* Authentication: claims *)

Public(u) == [id |-> u.id, username |-> u.username, email |-> u.email]

(* Request r passes jwt.verify in this step *)
Verified(r) == reqs[r].pc = "idle" /\ reqs'[r].route \in Protected /\ reqs'[r].pc = "auth"

(* The handler of request r starts in this step *)
Entered(r) == reqs[r].pc = "auth" /\ reqs'[r].user # NoUser

(* Request r is turned away by authenticateToken in this step *)
Refused(r) ==
    /\ reqs'[r].route \in Protected
    /\ reqs[r].pc \in {"idle", "auth"}
    /\ reqs'[r].pc \notin {"idle", "auth"}
    /\ reqs'[r].user = NoUser

(* C3: on a protected route the handler runs only for a Bearer token that a *)
(* successful login issued less than ExpiresIn before its verification and  *)
(* whose id is the id of a stored user, and it runs with req.user that      *)
(* user; every other request is answered 401 and no table changes.          *)
C3_OnlyAuthenticated ==
    [][\A r \in Req :
         /\ Verified(r) =>
              /\ reqs'[r].hdr.scheme = "Bearer"
              /\ reqs'[r].hdr.tok \in issued
              /\ now - reqs'[r].hdr.tok.iat < ExpiresIn
              /\ db' = db
         /\ Entered(r) =>
              /\ \E u \in users : u.id = reqs[r].hdr.tok.id /\ reqs'[r].user = Public(u)
              /\ db' = db
         /\ Refused(r) =>
              /\ reqs'[r].pc = "done"
              /\ reqs'[r].status = 401
              /\ db' = db
         /\ (reqs'[r].route \in Protected /\ reqs'[r].pc \notin {"idle", "auth", "done"})
              => reqs'[r].user # NoUser
         /\ (reqs'[r].route \in Protected /\ reqs'[r].status \notin {0, 401})
              => reqs'[r].user # NoUser]_vars

(* Ann logged in and, with the token, had GET /ideas/1 answered by its      *)
(* handler (404: there is no idea) after the clock advanced once            *)
C3_Witness ==
    /\ reqs["r1"].route = "idea_get"
    /\ reqs["r1"].hdr.tok \in issued
    /\ reqs["r1"].user = Public(Ann)
    /\ reqs["r1"].status = 404
    /\ now = reqs["r1"].hdr.tok.iat + 1

(* A token that login issued has expired, and the request carrying it is    *)
(* refused                                                                  *)
C3_ExpiredIsRefused ==
    /\ reqs["r1"].route \in Protected
    /\ reqs["r1"].hdr.tok \in issued
    /\ now >= reqs["r1"].hdr.tok.exp
    /\ reqs["r1"].status = 401

-----------------------------------------------------------------------------
(* Ideas: Ann and Bob are registered and logged in; client r1 holds Ann's   *)
(* token and client r2 holds Bob's; they create, update and fetch ideas     *)
(* concurrently.                                                            *)

(* After the four schema routes, two registrations and two logins *)
InitReady ==
    /\ tables = TableNames
    /\ users = {Ann, Bob}
    /\ ideas = {}
    /\ comments = {}
    /\ feedback = {}
    /\ serial = [t \in TableNames |-> IF t = "users" THEN 3 ELSE 1]
    /\ now = 0
    /\ issued = {Sign(Ann.id, 0), Sign(Bob.id, 0)}
    /\ reqs = [r \in Req |-> Idle]

Bearer(k) == [scheme |-> "Bearer", tok |-> k]

TokenOf(r) == IF r = "r1" THEN Bearer(Sign(Ann.id, 0)) ELSE Bearer(Sign(Bob.id, 0))

CreateBodies == { b \in IdeaBodies : ~IsNull(b.title) }

NextIdeas ==
    \/ \E r \in Req, body \in CreateBodies : Arrive(r, "idea_create", TokenOf(r), 0, body)
    \/ \E r \in Req, id \in 1..MaxId, body \in PatchBodies :
         Arrive(r, "idea_patch", TokenOf(r), id, body)
    \/ \E r \in Req, id \in 1..MaxId : Arrive(r, "idea_get", TokenOf(r), id, <<>>)
    \/ \E r \in Req : AuthQuery(r)
    \/ \E r \in Req : IdeaInsert(r)
    \/ \E r \in Req : IdeaUpdate(r)
    \/ \E r \in Req : IdeaGet(r)
    \/ \E r \in Req : Retire(r)

SpecIdeas == InitReady /\ [][NextIdeas]_vars

-----------------------------------------------------------------------------
(* Ideas: claims *)

(* PATCH writes the three fields together and never NULL, so an idea whose  *)
(* description and short_description are NULL was never updated             *)
Untouched(o) == IsNull(o.description) /\ IsNull(o.short_description)

(* C6: GET /ideas/:id of an idea created with a title and no status (and    *)
(* not updated since) returns status "New" and the creator's id and         *)
(* username.  Here an idea created with a status has status "Open".         *)
C6_StatusDefaultsToNew ==
    \A r \in Req :
      (At(r, "idea_get", "done") /\ reqs[r].status = 200 /\ Untouched(reqs[r].out)) =>
         /\ reqs[r].out.status \in {Some("New"), Some("Open")}
         /\ \E u \in users : u.id = reqs[r].out.user_id /\ u.username = reqs[r].out.username

(* What a PATCH body writes into a field: the value given, "" when absent *)
Written(v) == IF IsNull(v) THEN Some("") ELSE v

Updates(r, i, j) ==
    /\ At(r, "idea_patch", "update")
    /\ reqs[r].id = i.id
    /\ j.short_description = Written(reqs[r].body.short_description)
    /\ j.description = Written(reqs[r].body.description)
    /\ j.status = Written(reqs[r].body.status)
    /\ j.title = i.title /\ j.area = i.area /\ j.user_id = i.user_id
    /\ j.created_at = i.created_at
    /\ reqs'[r].pc = "done" /\ reqs'[r].status = 200 /\ reqs'[r].out = j

(* C7: every PATCH of an existing idea, by any authenticated user, succeeds *)
(* with 200 and returns the updated row; whenever an idea row changes, its  *)
(* short_description, description and status all become the values of the   *)
(* one request whose UPDATE ran, and its other columns stay.                *)
C7_LastWriteWins ==
    [][/\ \A i \in ideas, j \in ideas' :
            (i.id = j.id /\ i # j) => \E r \in Req : Updates(r, i, j)
       /\ \A r \in Req, i \in ideas :
            (At(r, "idea_patch", "update") /\ reqs[r].id = i.id /\ reqs'[r] # reqs[r])
               => \E j \in ideas' : Updates(r, i, j)]_vars

(* Ann and Bob have both updated Ann's idea 1 with different bodies, both   *)
(* were answered 200, and the row is what Bob's request returned, not what  *)
(* Ann's returned                                                           *)
C7_Witness ==
    /\ At("r1", "idea_patch", "done") /\ At("r2", "idea_patch", "done")
    /\ reqs["r1"].id = 1 /\ reqs["r2"].id = 1
    /\ reqs["r1"].status = 200 /\ reqs["r2"].status = 200
    /\ reqs["r1"].body # reqs["r2"].body
    /\ \E i \in ideas : i.id = 1 /\ i.user_id = Ann.id /\ reqs["r2"].out = i
                        /\ reqs["r1"].out # i /\ reqs["r1"].out # <<>>

-----------------------------------------------------------------------------
(* Deleting ideas: Ann and Bob create ideas, comment on them, delete them   *)
(* and read them back.                                                      *)

NextDelete ==
    \/ \E r \in Req : Arrive(r, "idea_create", TokenOf(r), 0, PlainBody("idea_create"))
    \/ \E r \in Req, id \in 1..MaxId :
         Arrive(r, "comment_create", TokenOf(r), id, PlainBody("comment_create"))
    \/ \E r \in Req, id \in 1..MaxId : Arrive(r, "idea_delete", TokenOf(r), id, <<>>)
    \/ \E r \in Req, id \in 1..MaxId : Arrive(r, "idea_get", TokenOf(r), id, <<>>)
    \/ \E r \in Req, route \in {"ideas_list", "my_ideas"} : Arrive(r, route, TokenOf(r), 0, <<>>)
    \/ \E r \in Req : AuthQuery(r)
    \/ \E r \in Req : IdeaInsert(r)
    \/ \E r \in Req : CommentInsert(r)
    \/ \E r \in Req : IdeaDeleteSelect(r)
    \/ \E r \in Req : IdeaDelete(r)
    \/ \E r \in Req : IdeaGet(r)
    \/ \E r \in Req : IdeasList(r)
    \/ \E r \in Req : MyIdeas(r)
    \/ \E r \in Req : Retire(r)

SpecDelete == InitReady /\ [][NextDelete]_vars

(* C4: DELETE /ideas/:id of an existing idea is answered 403 and leaves the *)
(* row when the requester is not the owner, and is answered 200 and removes *)
(* the row when the requester is the owner, whatever comments the idea has. *)
C4_OwnerDeletes ==
    [][\A r \in Req, i \in ideas :
         (reqs[r].route = "idea_delete" /\ Finishes(r) /\ i.id = reqs[r].id) =>
            IF i.user_id # reqs[r].user.id
            THEN reqs'[r].status = 403 /\ ideas' = ideas
            ELSE reqs'[r].status = 200 /\ i \notin ideas']_vars

(* An idea that a request answered 200 has deleted is in no later answer of *)
(* GET /ideas, GET /my-ideas or GET /ideas/:id                              *)
C4_DeletedStaysAbsent ==
    [][\A d \in Req :
         (At(d, "idea_delete", "done") /\ reqs[d].status = 200) =>
            \A r \in Req :
               (Finishes(r) /\ reqs'[r].status = 200) =>
                  /\ reqs[r].route \in {"ideas_list", "my_ideas"} =>
                        \A k \in DOMAIN reqs'[r].out : reqs'[r].out[k].id # reqs[d].id
                  /\ reqs[r].route = "idea_get" => reqs'[r].out.id # reqs[d].id]_vars

-----------------------------------------------------------------------------
(* Comments: Ann has created idea 1; Ann and Bob post comments and replies  *)
(* on it, list them and delete them concurrently, and the server may crash. *)

Idea1 == [id |-> 1, title |-> "Foo", description |-> NULL, short_description |-> NULL,
          area |-> NULL, status |-> NULL, user_id |-> Ann.id, created_at |-> 0]

(* InitReady, then Ann's POST /api/ideas {title: "Foo"} *)
InitIdea ==
    /\ tables = TableNames
    /\ users = {Ann, Bob}
    /\ ideas = {Idea1}
    /\ comments = {}
    /\ feedback = {}
    /\ serial = [t \in TableNames |-> CASE t = "users" -> 3 [] t = "ideas" -> 2 [] OTHER -> 1]
    /\ now = 0
    /\ issued = {Sign(Ann.id, 0), Sign(Bob.id, 0)}
    /\ reqs = [r \in Req |-> Idle]

PostBodies == { b \in CommentBodies : ~IsNull(b.comment) }

NextComments ==
    \/ \E r \in Req, body \in PostBodies : Arrive(r, "comment_create", TokenOf(r), 1, body)
    \/ \E r \in Req, id \in 1..MaxId : Arrive(r, "comment_delete", TokenOf(r), id, <<>>)
    \/ \E r \in Req : Arrive(r, "comments_list", TokenOf(r), 1, <<>>)
    \/ \E r \in Req : AuthQuery(r)
    \/ \E r \in Req : CommentInsert(r)
    \/ \E r \in Req : CommentsList(r)
    \/ \E r \in Req : CommentDeleteSelect(r)
    \/ \E r \in Req : CommentDeleteReply(r)
    \/ \E r \in Req : CommentDeleteReplies(r)
    \/ \E r \in Req : CommentDeleteSelf(r)
    \/ \E r \in Req : Retire(r)
    \/ Crash

SpecComments == InitIdea /\ [][NextComments]_vars

-----------------------------------------------------------------------------
(* Comments: claims *)

Deleting(r) == reqs[r].route = "comment_delete"
                 /\ reqs[r].pc \in {"delete_reply", "delete_replies", "delete_self"}

Self(r) == { c \in comments : c.id = reqs[r].id }
Replies(r) == { c \in comments : c.parent_id = Some(reqs[r].id) }

C5_RefusedByConcurrentReply ==
    /\ At("r1", "comment_delete", "done") /\ reqs["r1"].status = 500
    /\ reqs["r1"].at = "delete_self"
    /\ \E c \in comments : c.id = reqs["r1"].id /\ IsNull(c.parent_id)

Orphans == { c \in comments : ~IsNull(c.parent_id) /\ Val(c.parent_id) \notin Ids(comments) }

(* Request d crashed between the two DELETE statements of a top-level       *)
(* comment to which request p had posted a reply                            *)
CrashedBetween(d, p) ==
    /\ reqs[d].route = "comment_delete" /\ reqs[d].pc = "crashed" /\ reqs[d].at = "delete_self"
    /\ At(p, "comment_create", "done") /\ reqs[p].status = 201
    /\ reqs[p].out.parent_id = Some(reqs[d].id)

(* C9, as claimed: a crash between the two DELETE statements leaves a reply *)
(* stored whose parent comment is deleted.                                  *)
C9_CrashOrphansReplies ==
    \A d, p \in Req : CrashedBetween(d, p) => Orphans # {}

(* C9, amended: no stored comment names a parent that is not stored.        *)
C9_NoOrphanedReply == Orphans = {}

(* The crash came between the two statements: the reply is deleted and the  *)
(* top-level comment is still stored                                        *)
C9_Witness ==
    /\ CrashedBetween("r1", "r2")
    /\ reqs["r2"].out \notin comments
    /\ reqs["r1"].id \in Ids(comments)

-----------------------------------------------------------------------------
(* Referential integrity: every route that writes a row or drops a table.   *)
(* Only the users table exists at first: in an earlier life of the table    *)
(* Ann and Bob registered and logged in, then GET /api/create_table_users   *)
(* emptied it and Ann registered again.                                     *)

InitData ==
    /\ tables = {"users"}
    /\ users = {Ann}
    /\ ideas = {}
    /\ comments = {}
    /\ feedback = {}
    /\ serial = [t \in TableNames |-> IF t = "users" THEN 2 ELSE 1]
    /\ now = 0
    /\ issued = {Sign(Ann.id, 0), Sign(Bob.id, 0)}
    /\ reqs = [r \in Req |-> Idle]

DataTables == {"create_table_users", "create_table_ideas", "create_table_comments"}

NextData ==
    \/ \E route \in DataTables : CreateTable("r2", route)
    \/ DropTable("r2")
    \/ CreateTableIfNotExists("r2")
    \/ Register("r2", BodyOf(Bob))
    \/ RegisterSelect("r2")
    \/ RegisterInsert("r2")
    \/ \E r \in Req : Arrive(r, "idea_create", TokenOf(r), 0, PlainBody("idea_create"))
    \/ \E id \in 1..MaxId : Arrive("r1", "idea_patch", TokenOf("r1"), id, PlainBody("idea_patch"))
    \/ \E id \in 1..MaxId : Arrive("r1", "idea_delete", TokenOf("r1"), id, <<>>)
    \/ \E id \in 1..MaxId, body \in PostBodies :
         Arrive("r1", "comment_create", TokenOf("r1"), id, body)
    \/ \E id \in 1..MaxId :
         Arrive("r2", "comment_create", TokenOf("r2"), id, PlainBody("comment_create"))
    \/ \E id \in 1..MaxId : Arrive("r1", "comment_delete", TokenOf("r1"), id, <<>>)
    \/ \E r \in Req : AuthQuery(r)
    \/ \E r \in Req : IdeaInsert(r)
    \/ IdeaUpdate("r1")
    \/ IdeaDeleteSelect("r1")
    \/ IdeaDelete("r1")
    \/ \E r \in Req : CommentInsert(r)
    \/ CommentDeleteSelect("r1")
    \/ CommentDeleteReply("r1")
    \/ CommentDeleteReplies("r1")
    \/ CommentDeleteSelf("r1")
    \/ \E r \in Req : Retire(r)

SpecData == InitData /\ [][NextData]_vars

(* C8: every idea names a stored user, and every comment names a stored     *)
(* user and a stored idea.                                                  *)
C8_ReferencesExist ==
    /\ \A i \in ideas : i.user_id \in Ids(users)
    /\ \A c \in comments : c.user_id \in Ids(users) /\ c.idea_id \in Ids(ideas)

(* An idea with a comment is stored, and a schema route that would have     *)
(* dropped a table they reference was refused                               *)
C8_Witness ==
    /\ ideas # {} /\ comments # {}
    /\ \E r \in Req : reqs[r].route \in {"create_table_users", "create_table_ideas"}
                      /\ reqs[r].fault = "dependent_objects_still_exist"

-----------------------------------------------------------------------------
(* Failures: one client calls every route, with and without a token, and    *)
(* any statement may be rejected.                                           *)

ErrBodies(route) == IF route = "comment_create" THEN CommentBodies ELSE {PlainBody(route)}

NextErr ==
    \/ Ping("r1")
    \/ \E route \in SchemaRoutes : CreateTable("r1", route)
    \/ \E body \in {BodyOf(Ann), BodyOf(Bob)} : Register("r1", body)
    \/ \E body \in LoginBodies : Login("r1", body)
    \/ \E body \in { b \in FeedbackBodies : IsNull(b.email) } : Feedback("r1", body)
    \/ NotFound("r1")
    \/ \E route \in Protected, hdr \in {NoHeader, TokenOf("r1")} :
         \E id \in ParamsOf(route), body \in ErrBodies(route) :
            Arrive("r1", route, hdr, id, body)
    \/ Steps("r1")
    \/ QueryFails("r1")
    \/ Retire("r1")

SpecErr == InitReady /\ [][NextErr]_vars

(* C10: a request whose statement was rejected inside a route handler is    *)
(* answered, and answered 500.                                              *)
C10_FailureIsAnswered500 ==
    \A r \in Req :
      (reqs[r].fault # "none" /\ reqs[r].at # "auth") =>
         (reqs[r].pc = "done" /\ reqs[r].status = 500)

=============================================================================
